---- MODULE Spec2Model ----
(***************************************************************************)
(* OBD-II ignition detection and diagnostic polling (src/src/obd2.cpp).    *)
(*                                                                         *)
(* Time is counted in seconds.  IGNITION_STATUS_TIMER holds the time that  *)
(* has passed since the clock's last tick, saturated at the clock's period *)
(* (the code only ever asks whether the period has elapsed).               *)
(* The diagnostics manager's request table is a bag of request records.    *)
(***************************************************************************)
EXTENDS Bags, FiniteSets, Integers, Naturals, Sequences, TLC

\* ---------------------------------------------------------------- bounds
\* copies of one and the same one-shot request the manager's table can hold
MaxOneShot == 1
\* copies of one and the same recurring request the manager's table can hold
MaxRecurring == 2
\* bytes in the payload of a supported-PID response (DecodeSpec)
MaxPayloadLen == 4

\* ------------------------------------------------------ program constants
ENGINE_SPEED_PID == 12
VEHICLE_SPEED_PID == 13
CHAR_BIT == 8
\* FrequencyClock {0.2}: 0.2 Hz, a period of 5 seconds
Period == 5
\* for(int i = 0x0; i <= 0x80; i += 0x20)
LastSupportBase == 128
SupportStep == 32
\* uint16_t pid
PidModulus == 65536

NULL == "NULL"
CAN1 == "can1"
OBD2_IGNITION_CHECK == "OBD2_IGNITION_CHECK"
ALWAYS_ON == "ALWAYS_ON"

OBD2_PIDS ==
  << [pid |-> ENGINE_SPEED_PID,  name |-> "engine_speed",  frequency |-> 5],
     [pid |-> VEHICLE_SPEED_PID, name |-> "vehicle_speed", frequency |-> 5],
     [pid |-> 4,   name |-> "engine_load", frequency |-> 5],
     [pid |-> 51,  name |-> "barometric_pressure", frequency |-> 1],
     [pid |-> 76,  name |-> "commanded_throttle_position", frequency |-> 1],
     [pid |-> 5,   name |-> "engine_coolant_temperature", frequency |-> 1],
     [pid |-> 39,  name |-> "fuel_level", frequency |-> 1],
     [pid |-> 15,  name |-> "intake_air_temperature", frequency |-> 1],
     [pid |-> 11,  name |-> "intake_manifold_pressure", frequency |-> 1],
     [pid |-> 31,  name |-> "running_time", frequency |-> 1],
     [pid |-> 17,  name |-> "throttle_position", frequency |-> 5],
     [pid |-> 10,  name |-> "fuel_pressure", frequency |-> 1],
     [pid |-> 102, name |-> "mass_airflow", frequency |-> 5],
     [pid |-> 90,  name |-> "accelerator_pedal_position", frequency |-> 5],
     [pid |-> 82,  name |-> "ethanol_fuel_percentage", frequency |-> 1],
     [pid |-> 92,  name |-> "engine_oil_temperature", frequency |-> 1],
     [pid |-> 99,  name |-> "engine_torque", frequency |-> 1] >>

\* ---------------------------------------------------------------- inputs
\* the CanBus* the main loop passes to loop(): no bus, or a bus
Buses == {NULL, CAN1}
\* decoded OBD-II values: zero and two non-zero values
DecodedValues == {0, 1, 2}
\* payloads of supported-PID responses (bytes)
Payloads == { <<>>, <<1>>, <<8, 24>> }
\* the bytes of the payloads DecodeSpec decodes: no bit, bit 0, bit 3,
\* bit 7, bits 3 and 7
DecodeBytes == {0, 1, 8, 128, 136}
DecodePayloads == UNION { [1 .. n -> DecodeBytes] : n \in 0 .. MaxPayloadLen }

VARIABLES
  ENGINE_STARTED,          \* static bool ENGINE_STARTED
  VEHICLE_IN_MOTION,       \* static bool VEHICLE_IN_MOTION
  IGNITION_STATUS_TIMER,   \* seconds since the clock's last tick (saturated)
  ignitionWasOn,           \* loop(): static bool ignitionWasOn
  pidSupportQueried,       \* loop(): static bool pidSupportQueried
  sentFinalIgnitionCheck,  \* loop(): static bool sentFinalIgnitionCheck
  initialized,             \* manager->initialized
  requests,                \* the manager's registered requests (a bag)
  obd2Bus,                 \* manager->obd2Bus
  powerManagement,         \* getConfiguration()->powerManagement
  recurringObd2Requests,   \* getConfiguration()->recurringObd2Requests
  loopDue,                 \* the main loop has not yet run loop() this second
  lastCall,                \* the function that ran last and the branch it took
  positiveSinceProbe,      \* history: a non-zero engine/vehicle speed response
                           \* arrived since the ignition probe was last sent
  reprobedSinceInit,       \* history: loop() re-sent the probe since initialize()
  positiveSinceInit,       \* history: a non-zero engine/vehicle speed response
                           \* arrived since the latest initialize() or teardown
  response,                \* history (kept by DecodeSpec only): the response
                           \* the latest run of checkSupportedPids was given
  supportedPids            \* history (kept by DecodeSpec only): the PIDs the
                           \* latest run of checkSupportedPids found set in the
                           \* bitmask (the values of uint16_t pid, line 90)

config == <<obd2Bus, powerManagement, recurringObd2Requests>>
statics == <<ENGINE_STARTED, VEHICLE_IN_MOTION>>
flags == <<ignitionWasOn, pidSupportQueried, sentFinalIgnitionCheck>>
vars == <<ENGINE_STARTED, VEHICLE_IN_MOTION, IGNITION_STATUS_TIMER,
          ignitionWasOn, pidSupportQueried, sentFinalIgnitionCheck,
          initialized, requests, obd2Bus, powerManagement,
          recurringObd2Requests, loopDue, lastCall, positiveSinceProbe,
          reprobedSinceInit, positiveSinceInit, response, supportedPids>>

Min(a, b) == IF a < b THEN a ELSE b

\* ------------------------------------------------------------- the clock
\* time::tick(clock): the last tick is now
tick == 0
\* time::elapsed(clock, false): the period has passed since the last tick
elapsed(clock) == clock >= Period

\* ------------------------------------------------- the diagnostics manager
\* addRequest(manager, bus, &request, name, false, false, 1, 0, NULL, callback)
addRequest(reqs, bus, pid, name, callback) ==
  reqs (+) SetToBag({[bus |-> bus, pid |-> pid, name |-> name,
                      recurring |-> FALSE,
                      frequency |-> 0, handler |-> NULL,
                      callback |-> callback]})

\* addRecurringRequest(manager, bus, &request, name, ..., handler, callback, freq)
addRecurringRequest(reqs, bus, pid, name, handler, callback, frequency) ==
  reqs (+) SetToBag({[bus |-> bus, pid |-> pid, name |-> name,
                      recurring |-> TRUE,
                      frequency |-> frequency, handler |-> handler,
                      callback |-> callback]})

\* diagnostics::reset(manager): every request is cancelled
reset == EmptyBag

\* the copies of request r the table can hold
Capacity(r) == IF r.recurring THEN MaxRecurring ELSE MaxOneShot

\* the table has room for one more copy of every request in rs
Room(reqs, rs) == \A r \in rs : CopiesIn(r, reqs) < Capacity(r)

\* no request has more copies in the table than the table holds
Fits(reqs) == \A q \in BagToSet(reqs) : CopiesIn(q, reqs) <= Capacity(q)

\* ------------------------------------------------------ the PID registry
\* for(size_t i = 0; i < sizeof(OBD2_PIDS) / sizeof(Obd2Pid); i++)
\*     if(OBD2_PIDS[i].pid == pid) ... break;
\* the index of the first entry for pid, 0 when there is none
RECURSIVE findObd2Pid(_, _)
findObd2Pid(pid, i) ==
  IF i > Len(OBD2_PIDS) THEN 0
  ELSE IF OBD2_PIDS[i].pid = pid THEN i
  ELSE findObd2Pid(pid, i + 1)

\* -------------------------------------------------------- obd2.cpp: 46-61
\* bool match: the response set its flag to true
ignitionMatch(pid, value) ==
  (pid = ENGINE_SPEED_PID \/ pid = VEHICLE_SPEED_PID) /\ value # 0

\* mutant: the vehicle-speed branch sets its flag but not match
checkIgnitionStatus_VehicleNoMatch(pid, value) ==
  /\ ENGINE_STARTED' =
       IF pid = ENGINE_SPEED_PID THEN value # 0 ELSE ENGINE_STARTED
  /\ VEHICLE_IN_MOTION' =
       IF pid # ENGINE_SPEED_PID /\ pid = VEHICLE_SPEED_PID
       THEN value # 0 ELSE VEHICLE_IN_MOTION
  /\ IGNITION_STATUS_TIMER' =
       IF pid = ENGINE_SPEED_PID /\ value # 0
       THEN tick ELSE IGNITION_STATUS_TIMER

\* mutant: the timer is reset for every engine-speed or vehicle-speed
\* response, whatever its value
checkIgnitionStatus_TickOnZero(pid, value) ==
  /\ ENGINE_STARTED' =
       IF pid = ENGINE_SPEED_PID THEN value # 0 ELSE ENGINE_STARTED
  /\ VEHICLE_IN_MOTION' =
       IF pid # ENGINE_SPEED_PID /\ pid = VEHICLE_SPEED_PID
       THEN value # 0 ELSE VEHICLE_IN_MOTION
  /\ IGNITION_STATUS_TIMER' =
       IF pid = ENGINE_SPEED_PID \/ pid = VEHICLE_SPEED_PID
       THEN tick ELSE IGNITION_STATUS_TIMER

checkIgnitionStatus(pid, value) ==
  /\ ENGINE_STARTED' =
       IF pid = ENGINE_SPEED_PID THEN value # 0 ELSE ENGINE_STARTED
  /\ VEHICLE_IN_MOTION' =
       IF pid # ENGINE_SPEED_PID /\ pid = VEHICLE_SPEED_PID
       THEN value # 0 ELSE VEHICLE_IN_MOTION
  /\ IGNITION_STATUS_TIMER' =
       IF ignitionMatch(pid, value) THEN tick ELSE IGNITION_STATUS_TIMER

\* -------------------------------------------------------- obd2.cpp: 63-77
\* mutant: the guard does not look at the bus
ignitionProbeGuard_NoBusCheck ==
  \/ powerManagement = OBD2_IGNITION_CHECK
  \/ recurringObd2Requests

ignitionProbeGuard ==
  /\ obd2Bus # NULL
  /\ \/ powerManagement = OBD2_IGNITION_CHECK
     \/ recurringObd2Requests

ignitionProbes(reqs) ==
  addRequest(addRequest(reqs, obd2Bus, ENGINE_SPEED_PID, "engine_speed",
                        "checkIgnitionStatus"),
             obd2Bus, VEHICLE_SPEED_PID, "vehicle_speed",
             "checkIgnitionStatus")

\* mutant: the probe is sent without resetting the timer
requestIgnitionStatus_NoTick ==
  IF ignitionProbeGuard
  THEN /\ requests' = ignitionProbes(requests)
       /\ UNCHANGED IGNITION_STATUS_TIMER
  ELSE UNCHANGED <<requests, IGNITION_STATUS_TIMER>>

requestIgnitionStatus ==
  IF ignitionProbeGuard
  THEN /\ requests' = ignitionProbes(requests)
       /\ IGNITION_STATUS_TIMER' = tick
  ELSE UNCHANGED <<requests, IGNITION_STATUS_TIMER>>

\* ------------------------------------------------------- obd2.cpp: 79-108
\* if(OBD2_PIDS[i].pid == pid) addRecurringRequest(...); break;
registerSupportedPid(reqs, pid) ==
  LET i == findObd2Pid(pid, 1) IN
  IF i = 0 THEN reqs
  ELSE addRecurringRequest(reqs, obd2Bus, pid, OBD2_PIDS[i].name,
                           "handleObd2Pid", "checkIgnitionStatus",
                           OBD2_PIDS[i].frequency)

\* response->payload[i] >> j & 0x1
payloadBit(payload, i, j) == (payload[i + 1] \div (2 ^ j)) % 2

\* mutant: the PID is counted from the base PID itself
supportedPid_FromBase(base, i, j) == (base + (i * CHAR_BIT) + j) % PidModulus

\* uint16_t pid = response->pid + (i * CHAR_BIT) + j + 1
supportedPid(base, i, j) == (base + (i * CHAR_BIT) + j + 1) % PidModulus

\* mutant: the scan stops at the first set bit whose PID is not in the registry
RECURSIVE scanPayload_BreakOnUnknown(_, _, _, _)
scanPayload_BreakOnUnknown(reqs, base, payload, k) ==
  IF k >= Len(payload) * CHAR_BIT THEN reqs
  ELSE LET i == k \div CHAR_BIT
           j == (CHAR_BIT - 1) - (k % CHAR_BIT)
       IN IF payloadBit(payload, i, j) = 1
          THEN IF findObd2Pid(supportedPid(base, i, j), 1) = 0 THEN reqs
               ELSE scanPayload_BreakOnUnknown(
                      registerSupportedPid(reqs, supportedPid(base, i, j)),
                      base, payload, k + 1)
          ELSE scanPayload_BreakOnUnknown(reqs, base, payload, k + 1)

\* the two nested loops, flattened: step k looks at byte i = k / 8 and at
\* bit j = 7 - k % 8 (j runs from CHAR_BIT - 1 down to 0)
RECURSIVE scanPayload(_, _, _, _)
scanPayload(reqs, base, payload, k) ==
  IF k >= Len(payload) * CHAR_BIT THEN reqs
  ELSE LET i == k \div CHAR_BIT
           j == (CHAR_BIT - 1) - (k % CHAR_BIT)
       IN scanPayload(IF payloadBit(payload, i, j) = 1
                      THEN registerSupportedPid(reqs, supportedPid(base, i, j))
                      ELSE reqs,
                      base, payload, k + 1)

checkSupportedPids(reqs, base, payload) ==
  IF obd2Bus = NULL \/ ~recurringObd2Requests THEN reqs
  ELSE scanPayload(reqs, base, payload, 0)

\* the values pid takes at line 90 in one run of checkSupportedPids
derivedPids(base, payload) ==
  IF obd2Bus = NULL \/ ~recurringObd2Requests THEN {}
  ELSE { supportedPid(base, i, j) :
           <<i, j>> \in { ij \in (0 .. Len(payload) - 1) \X (0 .. CHAR_BIT - 1) :
                            payloadBit(payload, ij[1], ij[2]) = 1 } }

\* ----------------------------------------------------- obd2.cpp: 110-112
initialize == requestIgnitionStatus

\* ----------------------------------------------------- obd2.cpp: 119-169
\* for(int i = 0x0; i <= 0x80; i += 0x20) addRequest(..., checkSupportedPids)
RECURSIVE querySupportedPids(_, _, _)
querySupportedPids(reqs, bus, i) ==
  IF i <= LastSupportBase
  THEN querySupportedPids(addRequest(reqs, bus, i, NULL, "checkSupportedPids"),
                          bus, i + SupportStep)
  ELSE reqs

\* mutant: the final timeout leaves pidSupportQueried as it is
timeoutFinal_KeepsQueried ==
  /\ IF initialized /\ powerManagement = OBD2_IGNITION_CHECK
     THEN /\ requests' = reset
          /\ initialized' = FALSE
     ELSE UNCHANGED <<requests, initialized>>
  /\ ignitionWasOn' = FALSE
  /\ UNCHANGED <<pidSupportQueried, sentFinalIgnitionCheck,
                 IGNITION_STATUS_TIMER, statics>>

\* mutant: the final timeout also clears the IgnitionState
timeoutFinal_ClearsIgnition ==
  /\ IF initialized /\ powerManagement = OBD2_IGNITION_CHECK
     THEN /\ requests' = reset
          /\ initialized' = FALSE
     ELSE UNCHANGED <<requests, initialized>>
  /\ ignitionWasOn' = FALSE
  /\ pidSupportQueried' = FALSE
  /\ ENGINE_STARTED' = FALSE
  /\ VEHICLE_IN_MOTION' = FALSE
  /\ UNCHANGED <<sentFinalIgnitionCheck, IGNITION_STATUS_TIMER>>

\* mutant: the final timeout tears down whatever the power management is
timeoutFinal_AnyPowerManagement ==
  /\ IF initialized
     THEN /\ requests' = reset
          /\ initialized' = FALSE
     ELSE UNCHANGED <<requests, initialized>>
  /\ ignitionWasOn' = FALSE
  /\ pidSupportQueried' = FALSE
  /\ UNCHANGED <<sentFinalIgnitionCheck, IGNITION_STATUS_TIMER, statics>>

\* timer elapsed, sentFinalIgnitionCheck already set
timeoutFinal ==
  /\ IF initialized /\ powerManagement = OBD2_IGNITION_CHECK
     THEN /\ requests' = reset
          /\ initialized' = FALSE
     ELSE UNCHANGED <<requests, initialized>>
  /\ ignitionWasOn' = FALSE
  /\ pidSupportQueried' = FALSE
  /\ UNCHANGED <<sentFinalIgnitionCheck, IGNITION_STATUS_TIMER, statics>>

\* timer elapsed, no final check sent yet
timeoutFirst ==
  /\ requestIgnitionStatus
  /\ sentFinalIgnitionCheck' = TRUE
  /\ UNCHANGED <<ignitionWasOn, pidSupportQueried, initialized, statics>>

\* mutant: the detection is not latched in ignitionWasOn
ignitionDetected_NoLatch(bus) ==
  /\ sentFinalIgnitionCheck' = FALSE
  /\ IF recurringObd2Requests /\ ~pidSupportQueried
     THEN /\ pidSupportQueried' = TRUE
          /\ requests' = querySupportedPids(requests, bus, 0)
     ELSE UNCHANGED <<pidSupportQueried, requests>>
  /\ UNCHANGED <<ignitionWasOn, initialized, IGNITION_STATUS_TIMER, statics>>

\* timer not elapsed, ignition seen for the first time
ignitionDetected(bus) ==
  /\ ignitionWasOn' = TRUE
  /\ sentFinalIgnitionCheck' = FALSE
  /\ IF recurringObd2Requests /\ ~pidSupportQueried
     THEN /\ pidSupportQueried' = TRUE
          /\ requests' = querySupportedPids(requests, bus, 0)
     ELSE UNCHANGED <<pidSupportQueried, requests>>
  /\ UNCHANGED <<initialized, IGNITION_STATUS_TIMER, statics>>

\* the branch loop() takes in the current state
loopBranch ==
  IF ~initialized THEN "loop.uninitialized"
  ELSE IF elapsed(IGNITION_STATUS_TIMER)
       THEN IF sentFinalIgnitionCheck
            THEN IF powerManagement = OBD2_IGNITION_CHECK
                 THEN "loop.teardown" ELSE "loop.final"
            ELSE "loop.reprobe"
  ELSE IF ~ignitionWasOn /\ (ENGINE_STARTED \/ VEHICLE_IN_MOTION)
       THEN "loop.detect"
  ELSE "loop.idle"

\* mutant: loop() does not return early on an uninitialized manager
loop_NoInitializedCheck(bus) ==
  IF elapsed(IGNITION_STATUS_TIMER)
  THEN IF sentFinalIgnitionCheck THEN timeoutFinal ELSE timeoutFirst
  ELSE IF ~ignitionWasOn /\ (ENGINE_STARTED \/ VEHICLE_IN_MOTION)
       THEN ignitionDetected(bus)
  ELSE UNCHANGED <<statics, IGNITION_STATUS_TIMER, flags, initialized, requests>>

loop(bus) ==
  IF ~initialized
  THEN UNCHANGED <<statics, IGNITION_STATUS_TIMER, flags, initialized, requests>>
  ELSE IF elapsed(IGNITION_STATUS_TIMER)
       THEN IF sentFinalIgnitionCheck THEN timeoutFinal ELSE timeoutFirst
  ELSE IF ~ignitionWasOn /\ (ENGINE_STARTED \/ VEHICLE_IN_MOTION)
       THEN ignitionDetected(bus)
  ELSE UNCHANGED <<statics, IGNITION_STATUS_TIMER, flags, initialized, requests>>

\* ---------------------------------------------------------------- actions
Init ==
  /\ ENGINE_STARTED = FALSE
  /\ VEHICLE_IN_MOTION = FALSE
  /\ IGNITION_STATUS_TIMER = 0
  /\ ignitionWasOn = FALSE
  /\ pidSupportQueried = FALSE
  /\ sentFinalIgnitionCheck = FALSE
  /\ initialized = FALSE
  /\ requests = EmptyBag
  /\ obd2Bus \in {NULL, CAN1}
  /\ powerManagement \in {OBD2_IGNITION_CHECK, ALWAYS_ON}
  /\ recurringObd2Requests \in BOOLEAN
  /\ loopDue = FALSE
  /\ lastCall = "none"
  /\ positiveSinceProbe = FALSE
  /\ reprobedSinceInit = FALSE
  /\ positiveSinceInit = FALSE
  /\ response = [pid |-> 0, payload |-> <<>>]
  /\ supportedPids = {}

\* the firmware (re)starts diagnostics: obd2::initialize(manager) runs and
\* the manager is marked initialized
Initialize ==
  /\ ~initialized
  /\ Room(requests, IF ignitionProbeGuard
                    THEN BagToSet(ignitionProbes(EmptyBag)) ELSE {})
  /\ initialize
  /\ initialized' = TRUE
  /\ lastCall' = "initialize"
  /\ positiveSinceProbe' = FALSE
  /\ reprobedSinceInit' = FALSE
  /\ positiveSinceInit' = FALSE
  /\ UNCHANGED <<response, supportedPids>>
  /\ UNCHANGED <<statics, flags, config, loopDue>>

\* the requests loop(manager, bus) registers in the current state
loopRequests(bus) ==
  IF loopBranch = "loop.reprobe" /\ ignitionProbeGuard
  THEN BagToSet(ignitionProbes(EmptyBag))
  ELSE IF loopBranch = "loop.detect" /\ recurringObd2Requests
                                      /\ ~pidSupportQueried
  THEN BagToSet(querySupportedPids(EmptyBag, bus, 0))
  ELSE {}

\* one iteration of the main loop calls obd2::loop(manager, bus)
Loop ==
  /\ \E bus \in Buses :
        /\ Room(requests, loopRequests(bus))
        /\ loop(bus)
  /\ lastCall' = loopBranch
  /\ loopDue' = FALSE
  /\ positiveSinceProbe' =
       IF loopBranch = "loop.reprobe" THEN FALSE ELSE positiveSinceProbe
  /\ reprobedSinceInit' =
       IF loopBranch = "loop.reprobe" THEN TRUE ELSE reprobedSinceInit
  /\ positiveSinceInit' =
       IF loopBranch = "loop.teardown" THEN FALSE ELSE positiveSinceInit
  /\ UNCHANGED <<response, supportedPids>>
  /\ UNCHANGED config

\* the manager completes request r: a one-shot request leaves the table
complete(reqs, r) ==
  IF r.recurring THEN reqs ELSE reqs (-) SetToBag({r})

\* the manager delivers a response to a request whose callback is
\* checkIgnitionStatus (an ignition probe or a recurring poller)
IgnitionResponse(r, value) ==
  /\ r \in BagToSet(requests)
  /\ r.callback = "checkIgnitionStatus"
  /\ requests' = complete(requests, r)
  /\ checkIgnitionStatus(r.pid, value)
  /\ lastCall' = IF ignitionMatch(r.pid, value)
                 THEN "checkIgnitionStatus.match"
                 ELSE "checkIgnitionStatus.nomatch"
  /\ positiveSinceProbe' = (positiveSinceProbe \/ ignitionMatch(r.pid, value))
  /\ positiveSinceInit' = (positiveSinceInit \/ ignitionMatch(r.pid, value))
  /\ UNCHANGED <<response, supportedPids>>
  /\ UNCHANGED <<flags, initialized, config, loopDue, reprobedSinceInit>>

\* the manager delivers the response to a supported-PID probe
SupportResponse(r, payload) ==
  /\ r \in BagToSet(requests)
  /\ r.callback = "checkSupportedPids"
  /\ requests' = checkSupportedPids(complete(requests, r), r.pid, payload)
  /\ Fits(requests')
  /\ lastCall' = "checkSupportedPids"
  /\ UNCHANGED <<response, supportedPids>>
  /\ UNCHANGED <<statics, IGNITION_STATUS_TIMER, flags, initialized, config,
                 loopDue, positiveSinceProbe, reprobedSinceInit,
                 positiveSinceInit>>

DeliverIgnition ==
  \E r \in BagToSet(requests), value \in DecodedValues :
     IgnitionResponse(r, value)

DeliverSupport ==
  \E r \in BagToSet(requests), payload \in Payloads :
     SupportResponse(r, payload)

\* the manager gives up on a one-shot request that was not answered: the
\* request leaves the table and its callback is never invoked
Expire ==
  \E r \in BagToSet(requests) :
     /\ ~r.recurring
     /\ requests' = requests (-) SetToBag({r})
     /\ UNCHANGED <<response, supportedPids>>
     /\ UNCHANGED <<statics, IGNITION_STATUS_TIMER, flags, initialized, config,
                    loopDue, lastCall, positiveSinceProbe, reprobedSinceInit,
                    positiveSinceInit>>

\* some one-shot request is still waiting for its response
pendingOneShot(reqs) == \E r \in BagToSet(reqs) : ~r.recurring

\* a second passes; the main loop runs loop() at least once every second,
\* and within a second the manager has answered or given up on every
\* one-shot request
Advance ==
  /\ ~loopDue
  /\ ~pendingOneShot(requests)
  /\ IGNITION_STATUS_TIMER' = Min(IGNITION_STATUS_TIMER + 1, Period)
  /\ loopDue' = TRUE
  /\ UNCHANGED <<response, supportedPids>>
  /\ UNCHANGED <<statics, flags, initialized, requests, config, lastCall,
                 positiveSinceProbe, reprobedSinceInit, positiveSinceInit>>

Next ==
  \/ Initialize
  \/ Loop
  \/ DeliverIgnition
  \/ DeliverSupport
  \/ Expire
  \/ Advance

Spec == Init /\ [][Next]_vars

\* the main loop keeps calling loop(), time keeps passing, and the manager
\* gives up on every one-shot request that stays unanswered
LiveSpec == Spec /\ WF_vars(Loop) /\ WF_vars(Advance) /\ WF_vars(Expire)

\* ------------------------------------------------- decoding, on its own
\* ignition has just been detected with recurring polling enabled; of the
\* five supported-PID probes loop() sent, one is still waiting for its response
DecodeInit ==
  /\ ENGINE_STARTED = TRUE
  /\ VEHICLE_IN_MOTION = FALSE
  /\ IGNITION_STATUS_TIMER = 0
  /\ ignitionWasOn = TRUE
  /\ pidSupportQueried = TRUE
  /\ sentFinalIgnitionCheck = FALSE
  /\ initialized = TRUE
  /\ obd2Bus = CAN1
  /\ powerManagement = ALWAYS_ON
  /\ recurringObd2Requests = TRUE
  /\ \E r \in BagToSet(querySupportedPids(EmptyBag, CAN1, 0)) :
        requests = SetToBag({r})
  /\ loopDue = FALSE
  /\ lastCall = "loop.detect"
  /\ positiveSinceProbe = TRUE
  /\ reprobedSinceInit = FALSE
  /\ positiveSinceInit = TRUE
  /\ response = [pid |-> 0, payload |-> <<>>]
  /\ supportedPids = {}

\* the manager delivers the response to a supported-PID probe; the PIDs the
\* handler finds set in the bitmask are recorded
DecodeResponse(r, payload) ==
  /\ r \in BagToSet(requests)
  /\ r.callback = "checkSupportedPids"
  /\ requests' = checkSupportedPids(complete(requests, r), r.pid, payload)
  /\ response' = [pid |-> r.pid, payload |-> payload]
  /\ supportedPids' = derivedPids(r.pid, payload)
  /\ lastCall' = "checkSupportedPids"
  /\ UNCHANGED <<statics, IGNITION_STATUS_TIMER, flags, initialized, config,
                 loopDue, positiveSinceProbe, reprobedSinceInit,
                 positiveSinceInit>>

Decode ==
  \E r \in BagToSet(requests), payload \in DecodePayloads :
     DecodeResponse(r, payload)

DecodeNext == Decode

DecodeSpec == DecodeInit /\ [][DecodeNext]_vars

\* ------------------------------------------------------------------ claims

\* C1: loop() tears down only after two consecutive silent timer periods:
\* a non-zero engine-speed or vehicle-speed response received after the
\* re-probe keeps the next expiry of the timer from tearing down, so at a
\* teardown no such response has arrived since the probe was last sent.
C1_TeardownOnlyAfterSilentReprobe ==
  [][(Loop /\ loopBranch = "loop.teardown") => ~positiveSinceProbe]_vars

\* C2: in ignition-check mode, when loop() runs on an initialized manager
\* with the timer elapsed and sentFinalIgnitionCheck already true, the
\* manager is reset, manager.initialized becomes false, and ignitionWasOn and
\* pidSupportQueried are false afterwards.
C2_FinalTimeoutTearsDown ==
  [][(/\ Loop
      /\ initialized
      /\ powerManagement = OBD2_IGNITION_CHECK
      /\ elapsed(IGNITION_STATUS_TIMER)
      /\ sentFinalIgnitionCheck)
     => (/\ requests' = EmptyBag
         /\ ~initialized'
         /\ ~ignitionWasOn'
         /\ ~pidSupportQueried')]_vars

\* C2 witness: the teardown has just run, after an ignition-on period
C2_Witness ==
  /\ lastCall = "loop.teardown"
  /\ powerManagement = OBD2_IGNITION_CHECK
  /\ ENGINE_STARTED
  /\ ~initialized
  /\ requests = EmptyBag

\* C3: with a bus present and ignition-check mode, when no non-zero response
\* arrives after initialize(), the machine re-sends the ignition probe before
\* it tears down: a teardown that ends a period without any non-zero response
\* comes after a re-probe sent since the most recent initialize().
C3_ReprobeBeforeTeardown ==
  [][(/\ Loop
      /\ loopBranch = "loop.teardown"
      /\ obd2Bus # NULL
      /\ ~positiveSinceProbe)
     => reprobedSinceInit]_vars

\* C3, its eventual part (under LiveSpec): with a bus present and
\* ignition-check mode, an initialized manager is eventually torn down unless
\* a non-zero engine-speed or vehicle-speed response arrives.
C3_EventuallyTeardown ==
  (initialized /\ obd2Bus # NULL /\ powerManagement = OBD2_IGNITION_CHECK)
     ~> (~initialized \/ lastCall = "checkIgnitionStatus.match")

\* C4: once PID discovery has run with recurring polling enabled, a tick of
\* loop() while ignition remains on (a flag of IgnitionState is set and the
\* vehicle answered the latest ignition probe with a non-zero value, no
\* recurring engine-speed or vehicle-speed poller being left unanswered)
\* keeps pidSupportQueried true and registers no supported-PID probe.
C4_DiscoveryRunsOnce ==
  [][(/\ Loop
      /\ initialized
      /\ recurringObd2Requests
      /\ pidSupportQueried
      /\ ENGINE_STARTED \/ VEHICLE_IN_MOTION
      /\ positiveSinceProbe
      /\ \A r \in BagToSet(requests) : ~r.recurring)
     => (/\ pidSupportQueried'
         /\ \A r \in BagToSet(requests') :
               r.callback = "checkSupportedPids"
                  => CopiesIn(r, requests') <= CopiesIn(r, requests))]_vars

\* C5: whenever loop() takes its final-timeout branch (timer elapsed with
\* sentFinalIgnitionCheck true), all three PollingFlags are false afterwards.
C5_FinalTimeoutClearsAllFlags ==
  [][(/\ Loop
      /\ loopBranch \in {"loop.teardown", "loop.final"})
     => (/\ ~ignitionWasOn'
         /\ ~pidSupportQueried'
         /\ ~sentFinalIgnitionCheck')]_vars

\* C6 as stated: once true, ENGINE_STARTED and VEHICLE_IN_MOTION go back to
\* false only through the teardown of loop().
C6_ClearedOnlyByTeardown ==
  [][(\/ ENGINE_STARTED /\ ~ENGINE_STARTED'
      \/ VEHICLE_IN_MOTION /\ ~VEHICLE_IN_MOTION')
     => (Loop /\ loopBranch = "loop.teardown")]_vars

\* C6 amended: ENGINE_STARTED and VEHICLE_IN_MOTION are written only by the
\* ignition callback, each from the decoded value of its own PID (value # 0:
\* a non-zero value sets the flag, a zero value clears it); no tick of
\* loop(), the teardown included, and no initialize() changes them.
C6_WrittenOnlyFromOwnPid ==
  [][/\ (ENGINE_STARTED' # ENGINE_STARTED =>
           \E r \in BagToSet(requests), v \in DecodedValues :
              /\ IgnitionResponse(r, v)
              /\ r.pid = 12
              /\ ENGINE_STARTED' = (v # 0))
     /\ (VEHICLE_IN_MOTION' # VEHICLE_IN_MOTION =>
           \E r \in BagToSet(requests), v \in DecodedValues :
              /\ IgnitionResponse(r, v)
              /\ r.pid = 13
              /\ VEHICLE_IN_MOTION' = (v # 0))
     /\ ((Loop \/ Initialize) =>
           /\ ENGINE_STARTED' = ENGINE_STARTED
           /\ VEHICLE_IN_MOTION' = VEHICLE_IN_MOTION)]_vars

\* C6 witness: ignition was detected, and zero-valued responses have since
\* cleared both flags without any teardown
C6_Witness ==
  /\ lastCall = "checkIgnitionStatus.nomatch"
  /\ ignitionWasOn
  /\ ~ENGINE_STARTED
  /\ ~VEHICLE_IN_MOTION

\* C7: after initialize() with an OBD-II bus present and ignition-check
\* mode, exactly two requests are registered, both one-shot, one for the
\* engine-speed PID 0x0c and one for the vehicle-speed PID 0x0d, each with
\* the ignition-check callback, and the timer's last tick is now.
C7_InitializeRegistersProbes ==
  [][(/\ Initialize
      /\ obd2Bus # NULL
      /\ powerManagement = OBD2_IGNITION_CHECK)
     => (/\ requests' = SetToBag({
              [bus |-> "can1", pid |-> 12, name |-> "engine_speed",
               recurring |-> FALSE, frequency |-> 0, handler |-> "NULL",
               callback |-> "checkIgnitionStatus"],
              [bus |-> "can1", pid |-> 13, name |-> "vehicle_speed",
               recurring |-> FALSE, frequency |-> 0, handler |-> "NULL",
               callback |-> "checkIgnitionStatus"]})
         /\ BagCardinality(requests') = 2
         /\ IGNITION_STATUS_TIMER' = 0)]_vars

\* C7 witness: initialize() has just run in ignition-check mode with a bus
C7_Witness ==
  /\ lastCall = "initialize"
  /\ obd2Bus # NULL
  /\ powerManagement = OBD2_IGNITION_CHECK
  /\ sentFinalIgnitionCheck
  /\ BagCardinality(requests) = 2
  /\ IGNITION_STATUS_TIMER = 0

\* C8: a response delivered to the ignition callback (for a one-shot probe or
\* a recurring poller) with the engine-speed PID and a non-zero decoded value
\* leaves ENGINE_STARTED true and the timer reset to now; likewise the
\* vehicle-speed PID and VEHICLE_IN_MOTION.
C8_NonZeroResponseSetsFlagAndTicks ==
  [][\A r \in BagToSet(requests), v \in DecodedValues :
        (IgnitionResponse(r, v) /\ v # 0) =>
           /\ (r.pid = 12 => ENGINE_STARTED' /\ IGNITION_STATUS_TIMER' = 0)
           /\ (r.pid = 13 => VEHICLE_IN_MOTION' /\ IGNITION_STATUS_TIMER' = 0)
    ]_vars

\* C8 witness: a recurring vehicle-speed poller has just been answered with a
\* non-zero value
C8_Witness ==
  /\ lastCall = "checkIgnitionStatus.match"
  /\ VEHICLE_IN_MOTION
  /\ ~ENGINE_STARTED
  /\ IGNITION_STATUS_TIMER = 0
  /\ ~pendingOneShot(requests)
  /\ ignitionWasOn

\* C9: a response delivered to the ignition callback with the vehicle-speed
\* PID and a zero value leaves VEHICLE_IN_MOTION false and the timer as it
\* was; a response for any other PID than engine speed and vehicle speed
\* leaves both flags and the timer as they were; the timer is reset only
\* when a flag is set to true.
C9_ZeroOrOtherPidLeavesTimer ==
  [][\A r \in BagToSet(requests), v \in DecodedValues :
        IgnitionResponse(r, v) =>
           /\ ((r.pid = 13 /\ v = 0) =>
                 /\ ~VEHICLE_IN_MOTION'
                 /\ IGNITION_STATUS_TIMER' = IGNITION_STATUS_TIMER)
           /\ (r.pid \notin {12, 13} =>
                 /\ ENGINE_STARTED' = ENGINE_STARTED
                 /\ VEHICLE_IN_MOTION' = VEHICLE_IN_MOTION
                 /\ IGNITION_STATUS_TIMER' = IGNITION_STATUS_TIMER)
           /\ (IGNITION_STATUS_TIMER' # IGNITION_STATUS_TIMER =>
                 \/ r.pid = 12 /\ v # 0 /\ ENGINE_STARTED'
                 \/ r.pid = 13 /\ v # 0 /\ VEHICLE_IN_MOTION')
    ]_vars

\* C9 witness: a zero vehicle-speed response has cleared VEHICLE_IN_MOTION
\* while the timer kept running, an engine-load poller being registered too
C9_Witness ==
  /\ lastCall = "checkIgnitionStatus.nomatch"
  /\ ~VEHICLE_IN_MOTION
  /\ ~ENGINE_STARTED
  /\ ignitionWasOn
  /\ IGNITION_STATUS_TIMER > 0
  /\ IGNITION_STATUS_TIMER < Period
  /\ \E r \in BagToSet(requests) : r.recurring /\ r.pid = 4

\* C10: sending the ignition probe, from initialize() or from the
\* first-timeout branch of loop(), registers no request and leaves the timer
\* alone when no OBD-II bus is configured or when power management is not
\* ignition-check and recurring polling is disabled; otherwise it registers
\* exactly the two one-shot requests and resets the timer.
C10_ProbeIsGuarded ==
  [][(\/ Initialize
      \/ (/\ Loop
          /\ initialized
          /\ elapsed(IGNITION_STATUS_TIMER)
          /\ ~sentFinalIgnitionCheck))
     => IF /\ obd2Bus = "can1"
           /\ (powerManagement = "OBD2_IGNITION_CHECK" \/ recurringObd2Requests)
        THEN /\ requests' = requests (+) SetToBag({
                  [bus |-> "can1", pid |-> 12, name |-> "engine_speed",
                   recurring |-> FALSE, frequency |-> 0, handler |-> "NULL",
                   callback |-> "checkIgnitionStatus"],
                  [bus |-> "can1", pid |-> 13, name |-> "vehicle_speed",
                   recurring |-> FALSE, frequency |-> 0, handler |-> "NULL",
                   callback |-> "checkIgnitionStatus"]})
             /\ BagCardinality(requests') = BagCardinality(requests) + 2
             /\ IGNITION_STATUS_TIMER' = 0
        ELSE /\ requests' = requests
             /\ IGNITION_STATUS_TIMER' = IGNITION_STATUS_TIMER]_vars

\* C10 witness: loop() has just re-sent the probe with power management not
\* ignition-check and recurring polling enabled
C10_Witness ==
  /\ lastCall = "loop.reprobe"
  /\ powerManagement = ALWAYS_ON
  /\ recurringObd2Requests
  /\ IGNITION_STATUS_TIMER = 0
  /\ sentFinalIgnitionCheck
  /\ BagCardinality(requests) >= 2

\* C11: loop() is a no-op while the diagnostics manager is not initialized:
\* a tick with manager.initialized false registers no request, does not
\* reset the manager, and leaves the PollingFlags, the IgnitionState and the
\* activity timer unchanged, whether or not the timer has elapsed.
C11_UninitializedLoopIsNoOp ==
  [][(Loop /\ ~initialized)
     => (/\ requests' = requests
         /\ initialized' = initialized
         /\ ignitionWasOn' = ignitionWasOn
         /\ pidSupportQueried' = pidSupportQueried
         /\ sentFinalIgnitionCheck' = sentFinalIgnitionCheck
         /\ ENGINE_STARTED' = ENGINE_STARTED
         /\ VEHICLE_IN_MOTION' = VEHICLE_IN_MOTION
         /\ IGNITION_STATUS_TIMER' = IGNITION_STATUS_TIMER)]_vars

\* C11 witness: loop() has just run on a manager that is not initialized,
\* with the timer elapsed, no final check sent and a bus to probe on
C11_Witness ==
  /\ lastCall = "loop.uninitialized"
  /\ ~initialized
  /\ elapsed(IGNITION_STATUS_TIMER)
  /\ ~sentFinalIgnitionCheck
  /\ obd2Bus # NULL
  /\ requests = EmptyBag

\* C12: PID discovery is a no-op unless a bus is present and recurring
\* OBD-II polling is enabled: loop() registers supported-PID probes only on a
\* bus that is present (non-null) and only with recurring polling enabled,
\* and the support-response handler registers no recurring request when the
\* OBD-II bus is absent or recurring polling is disabled.
C12_DiscoveryNeedsBusAndRecurring ==
  [][/\ Loop =>
          \A r \in BagToSet(requests') :
             (/\ r.callback = "checkSupportedPids"
              /\ CopiesIn(r, requests') > CopiesIn(r, requests))
                => (r.bus # NULL /\ recurringObd2Requests)
     /\ DeliverSupport =>
          ((obd2Bus = NULL \/ ~recurringObd2Requests) =>
             \A r \in BagToSet(requests') :
                r.recurring => CopiesIn(r, requests') <= CopiesIn(r, requests))
    ]_vars

\* C13: supported-PID decoding: for a support response with base PID b and
\* payload bytes p[0..n-1], the PIDs considered supported are exactly
\* { b + i*8 + j + 1 : bit j (0 least significant) of p[i] is set }, and each
\* of them that is in the registry is registered as a recurring request with
\* the registry's name and frequency, the telemetry handler and the ignition
\* callback.  Base 0x00 with byte 0 = 0b10000000 yields PID 8; bit 3 of
\* byte 0 yields PID 4, registered as engine_load at frequency 5.
C13_SupportedPidDecoding ==
  [][\A r \in BagToSet(requests) :
        DecodeResponse(r, response'.payload) =>
          LET b == r.pid
              p == response'.payload
              S == { b + i * 8 + j + 1 :
                       <<i, j>> \in { ij \in (0 .. Len(p) - 1) \X (0 .. 7) :
                                        (p[ij[1] + 1] \div (2 ^ ij[2])) % 2 = 1 } }
              known == { k \in 1 .. Len(OBD2_PIDS) : OBD2_PIDS[k].pid \in S }
          IN /\ supportedPids' = S
             /\ requests' = (requests (-) SetToBag({r})) (+) SetToBag({
                   [bus |-> obd2Bus, pid |-> OBD2_PIDS[k].pid,
                    name |-> OBD2_PIDS[k].name, recurring |-> TRUE,
                    frequency |-> OBD2_PIDS[k].frequency,
                    handler |-> "handleObd2Pid",
                    callback |-> "checkIgnitionStatus"] : k \in known })
             /\ (b = 0 /\ p = <<128>>) => supportedPids' = {8}
             /\ (b = 0 /\ p = <<8>>) =>
                   /\ supportedPids' = {4}
                   /\ requests' = SetToBag({
                         [bus |-> "can1", pid |-> 4, name |-> "engine_load",
                          recurring |-> TRUE, frequency |-> 5,
                          handler |-> "handleObd2Pid",
                          callback |-> "checkIgnitionStatus"]})
    ]_vars

\* C13 witness: the response to the base-0 probe had bit 3 of byte 0, bit 3
\* of byte 1, bit 0 of byte 2 and bit 7 of byte 3 set; engine_load,
\* engine_speed and throttle_position are polled, PID 32 is not
C13_Witness ==
  /\ lastCall = "checkSupportedPids"
  /\ response = [pid |-> 0, payload |-> <<8, 8, 1, 128>>]
  /\ supportedPids = {4, 12, 17, 32}
  /\ BagCardinality(requests) = 3
  /\ \E r \in BagToSet(requests) :
        r.pid = 4 /\ r.name = "engine_load" /\ r.frequency = 5 /\ r.recurring

\* C14: bit 7 (the most significant bit) of the first payload byte denotes
\* the PID immediately following the queried base PID: for every base PID b,
\* a response whose only set bit is bit 7 of byte 0 reports PID b + 1 as
\* supported, and never the base PID b itself.
C14_Bit7IsNextPid ==
  [][\A r \in BagToSet(requests) :
        LET p == response'.payload
        IN (/\ DecodeResponse(r, p)
            /\ Len(p) >= 1
            /\ p[1] = 128
            /\ \A k \in 2 .. Len(p) : p[k] = 0)
           => (/\ supportedPids' = {r.pid + 1}
               /\ r.pid \notin supportedPids')]_vars

\* C15: unknown-capability tolerance: a set bit whose derived PID is not in
\* the registry registers no request of any kind and the handler goes on
\* with the remaining bits; base 0x00 with byte 0 = 0b00000001 derives PID 1,
\* which is not in the registry, so nothing is registered.  Each derived PID
\* that is in the registry produces exactly one recurring registration per
\* set bit.
C15_UnknownPidsAreSkipped ==
  [][\A r \in BagToSet(requests) :
        DecodeResponse(r, response'.payload) =>
          LET p == response'.payload
              bits == { ij \in (0 .. Len(p) - 1) \X (0 .. 7) :
                          (p[ij[1] + 1] \div (2 ^ ij[2])) % 2 = 1 }
              pidOf(ij) == r.pid + ij[1] * 8 + ij[2] + 1
              inRegistry(pid) ==
                \E k \in 1 .. Len(OBD2_PIDS) : OBD2_PIDS[k].pid = pid
              before == requests (-) SetToBag({r})
          IN /\ \A ij \in bits :
                  LET n == BagCardinality(
                             [q \in { x \in BagToSet(requests') :
                                        x.pid = pidOf(ij) } |->
                                CopiesIn(q, requests') - CopiesIn(q, before)])
                  IN IF inRegistry(pidOf(ij)) THEN n = 1 ELSE n = 0
             /\ \A q \in BagToSet(requests') :
                  CopiesIn(q, requests') > CopiesIn(q, before) => q.recurring
             /\ BagCardinality(requests') = BagCardinality(before)
                  + Cardinality({ ij \in bits : inRegistry(pidOf(ij)) })
             /\ (r.pid = 0 /\ p = <<1>>) => requests' = before
    ]_vars

\* C15 witness: the response to the base-0 probe had bits 7 and 3 of byte 0
\* set; PID 8 was scanned first and skipped, PID 4 was registered after it
C15_Witness ==
  /\ lastCall = "checkSupportedPids"
  /\ response = [pid |-> 0, payload |-> <<136>>]
  /\ supportedPids = {4, 8}
  /\ BagCardinality(requests) = 1
  /\ \E r \in BagToSet(requests) : r.pid = 4 /\ r.recurring

\* C16: teardown is gated on the power-management mode: when the mode is not
\* ignition-check, no tick of loop() resets the diagnostics manager or sets
\* manager.initialized to false, in any reachable state (timer elapsed with
\* sentFinalIgnitionCheck true included); the requests already registered
\* stay registered.
C16_TeardownOnlyInIgnitionCheck ==
  [][(Loop /\ powerManagement # "OBD2_IGNITION_CHECK")
     => (/\ initialized' = initialized
         /\ \A r \in BagToSet(requests) :
               CopiesIn(r, requests') >= CopiesIn(r, requests))]_vars

\* C16 witness: without ignition-check, loop() has just taken its
\* final-timeout branch; the manager is still initialized and the recurring
\* pollers are still registered
C16_Witness ==
  /\ lastCall = "loop.final"
  /\ powerManagement = ALWAYS_ON
  /\ initialized
  /\ elapsed(IGNITION_STATUS_TIMER)
  /\ sentFinalIgnitionCheck
  /\ \E r \in BagToSet(requests) : r.recurring

\* C17: no duplicate recurring pollers: between two resets of the diagnostics
\* manager (or from the start to the first reset) each registry PID is
\* registered as a recurring request at most once, in both power-management
\* modes, every supported-PID probe being answered at most once.
C17_NoDuplicatePollers ==
  \A k \in 1 .. Len(OBD2_PIDS) :
     BagCardinality([r \in { q \in BagToSet(requests) :
                               q.recurring /\ q.pid = OBD2_PIDS[k].pid } |->
                       CopiesIn(r, requests)]) <= 1

\* C18: ignition detection needs fresh evidence: loop() takes its
\* ignition-detected branch only if a non-zero engine-speed or vehicle-speed
\* response has been received since the most recent initialize() or
\* teardown; flag values left over from before a teardown never cause
\* detection after the manager is initialized again.
C18_DetectionNeedsFreshEvidence ==
  [][(Loop /\ loopBranch = "loop.detect") => positiveSinceInit]_vars

\* C19: recovery after a declared-off period (under LiveSpec): with a bus
\* present, recurring polling enabled and the manager still initialized
\* (power management not ignition-check), after the vehicle was silent
\* through both timeout stages the machine does not stay in the timed-out
\* state for ever without a request the vehicle could answer: eventually an
\* engine-speed or vehicle-speed request is registered (so that a vehicle
\* that answers again is detected), or ignition has been detected.
C19_RecoveryAfterDeclaredOff ==
  (/\ lastCall = "loop.final"
   /\ initialized
   /\ obd2Bus # NULL
   /\ recurringObd2Requests
   /\ powerManagement # OBD2_IGNITION_CHECK)
  ~> (\/ ignitionWasOn
      \/ \E r \in BagToSet(requests) :
            /\ r.callback = "checkIgnitionStatus"
            /\ r.pid \in {ENGINE_SPEED_PID, VEHICLE_SPEED_PID})

\* C20: flag consistency: in every reachable state pidSupportQueried implies
\* ignitionWasOn, and with recurring OBD-II polling enabled ignitionWasOn and
\* pidSupportQueried are equal.
C20_FlagConsistency ==
  /\ pidSupportQueried => ignitionWasOn
  /\ recurringObd2Requests => (ignitionWasOn = pidSupportQueried)

\* C20 witness: with recurring polling enabled both flags were latched by a
\* detection (its pollers are still registered) and the final timeout has
\* just cleared both
C20_Witness ==
  /\ lastCall = "loop.final"
  /\ recurringObd2Requests
  /\ ~ignitionWasOn
  /\ ~pidSupportQueried
  /\ \E r \in BagToSet(requests) : r.recurring

====
